---- MODULE Spec2Model ----
(***************************************************************************)
(* Model of the vector-search repository.                                  *)
(*                                                                         *)
(*   src/query.js          the document server with answer generation      *)
(*                         (POST /upload, POST /query, cosineSimilarity)   *)
(*   src/unnamed/part_000  the earlier document server (same two routes,   *)
(*                         no input checks, no answer generation)          *)
(*   src/unnamed/part_001  the movie script (createEmbedding,              *)
(*                         storeMovieWithEmbedding, searchMovies)          *)
(*                                                                         *)
(* A handler is modelled as one action per synchronous segment: the code   *)
(* between two awaits runs atomically on the Node event loop, and other    *)
(* requests interleave only at the awaits.                                 *)
(*                                                                         *)
(* Numbers.  Embedding components are small integers.  A similarity is     *)
(* kept exact: the value dot / sqrt(den2) is the record                    *)
(* [kind |-> "num", dot, den2], and not-a-number and the two infinities    *)
(* are kinds of their own.  Comparisons are those of the reals; the        *)
(* vectors of the model are chosen so that IEEE doubles order them the     *)
(* same way (parallel vectors differ by a power of two).                   *)
(***************************************************************************)
EXTENDS Integers, Sequences, FiniteSets, TLC

VARIABLES
    store,      \* the Embedding collection, in insertion order
    uploads,    \* the uploads directory: file name -> bytes, or Absent
    reqs,       \* the HTTP requests in flight, one per connection slot
    movies,     \* the movies collection of the movie script
    script,     \* the movie script's running call
    call        \* one application of cosineSimilarity

vars == <<store, uploads, reqs, movies, script, call>>

-----------------------------------------------------------------------------
(* Bounds of the model *)

MaxStore == 2           \* records the uploads of one run may add to the collection
MaxScan == 3            \* records a collection scanned by a query may hold
MaxMovies == 2          \* records the movies collection may hold
MaxDim == 2             \* longest vector handed to cosineSimilarity on its own

-----------------------------------------------------------------------------
(* JavaScript numbers *)

NaN == [kind |-> "nan", dot |-> 0, den2 |-> 0]
NegInfinity == [kind |-> "neginf", dot |-> 0, den2 |-> 0]
PosInfinity == [kind |-> "posinf", dot |-> 0, den2 |-> 0]

\* an intermediate number of a reduce: a finite integer, or not-a-number
\* (which is also what arithmetic makes of undefined)
Num(n) == [nan |-> FALSE, v |-> n]
NotANumber == [nan |-> TRUE, v |-> 0]

\* vec[i] for the zero-based i of reduce: undefined past the end of the array
Elem(vec, i) == IF i < Len(vec) THEN Num(vec[i + 1]) ELSE NotANumber

\* a * b and sum + x, not-a-number once either side is
Times(a, b) == IF a.nan \/ b.nan THEN NotANumber ELSE Num(a.v * b.v)
Plus(sum, x) == IF sum.nan \/ x.nan THEN NotANumber ELSE Num(sum.v + x.v)

Sgn(x) == IF x > 0 THEN 1 ELSE IF x < 0 THEN -1 ELSE 0

\* sgn(v) * v^2 of a finite similarity v = dot / sqrt(den2), times m
Key(x, m) == Sgn(x.dot) * x.dot * x.dot * m

\* x > y of JavaScript: false as soon as either side is not-a-number
Gt(x, y) ==
    CASE x.kind = "nan" \/ y.kind = "nan" -> FALSE
      [] x.kind = "neginf" -> FALSE
      [] y.kind = "posinf" -> FALSE
      [] x.kind = "posinf" -> TRUE
      [] y.kind = "neginf" -> TRUE
      [] OTHER -> Key(x, y.den2) > Key(y, x.den2)

\* x >= y of JavaScript
Ge(x, y) ==
    CASE x.kind = "nan" \/ y.kind = "nan" -> FALSE
      [] y.kind = "neginf" -> TRUE
      [] x.kind = "posinf" -> TRUE
      [] x.kind = "neginf" -> FALSE
      [] y.kind = "posinf" -> FALSE
      [] OTHER -> Key(x, y.den2) >= Key(y, x.den2)

IsNaN(x) == x.kind = "nan"

-----------------------------------------------------------------------------
(* cosineSimilarity *)

\* vecA.reduce((sum, a, i) => sum + a * vecB[i], 0), from zero-based index i
RECURSIVE dotProduct(_, _, _, _)
dotProduct(vecA, vecB, i, sum) ==
    IF i >= Len(vecA) THEN sum
    ELSE dotProduct(vecA, vecB, i + 1,
                    Plus(sum, Times(Num(vecA[i + 1]), Elem(vecB, i))))

\* vec.reduce((sum, val) => sum + val * val, 0): the magnitude before Math.sqrt
RECURSIVE magnitude2(_, _, _)
magnitude2(vec, i, sum) ==
    IF i >= Len(vec) THEN sum
    ELSE magnitude2(vec, i + 1, sum + vec[i + 1] * vec[i + 1])

\* dotProduct / (magnitudeA * magnitudeB)
cosineSimilarity(vecA, vecB) ==
    LET dot == dotProduct(vecA, vecB, 0, Num(0))
        den2 == magnitude2(vecA, 0, 0) * magnitude2(vecB, 0, 0)
    IN  IF dot.nan THEN NaN
        ELSE IF den2 = 0
             THEN (IF dot.v = 0 THEN NaN
                   ELSE IF dot.v > 0 THEN PosInfinity ELSE NegInfinity)
             ELSE [kind |-> "num", dot |-> dot.v, den2 |-> den2]

-----------------------------------------------------------------------------
(* One application of cosineSimilarity to arbitrary vectors *)

Components == {-1, 0, 1}

RECURSIVE VectorsOfLen(_)
VectorsOfLen(n) ==
    IF n = 0 THEN {<<>>}
    ELSE {Append(v, c) : v \in VectorsOfLen(n - 1), c \in Components}

ArgVectors == UNION {VectorsOfLen(n) : n \in 0..MaxDim}

NoCall == [vecA |-> <<>>, vecB |-> <<>>, state |-> "none", ret |-> NaN]

\* the function returns; it has no throw statement and reads no property of
\* an undefined value when both arguments are arrays
CallCosineSimilarity ==
    /\ call.state = "called"
    /\ call' = [call EXCEPT !.state = "returned",
                            !.ret = cosineSimilarity(call.vecA, call.vecB)]
    /\ UNCHANGED <<store, uploads, reqs, movies, script>>

-----------------------------------------------------------------------------
(* The collaborators: the PDF parser, the embedding provider *)

Names == {"a.pdf", "b.pdf"}             \* file.originalname of an upload
Texts == {"A", "B", "C", "S", "Z"}      \* texts a PDF may hold
Absent == "absent"                      \* no such file in the directory
NoFile == "nofile"                      \* req.file of a request without a file

\* the bytes of an upload: a PDF holding one of the texts, or a broken file
PdfOf(text) == "pdf:" \o text
Corrupt == "pdf:corrupt"
Pdfs == {PdfOf(t) : t \in Texts} \cup {Corrupt}

\* pdfParse(dataBuffer): rejects on a broken file
pdfParseResolves(dataBuffer) == dataBuffer # Corrupt

\* (await pdfParse(dataBuffer)).text
pdfText(dataBuffer) == CHOOSE t \in Texts : PdfOf(t) = dataBuffer

\* The provider's answer for a text, when it answers: a list of vectors.  It is
\* a deterministic function of the text.  "B" has the direction of "A", "C"
\* makes an obtuse angle with it, "S" is shorter, "Z" and the empty text are
\* the zero vector; "B" comes back as two vectors.
featureExtraction(text) ==
    CASE text = "A" -> << <<1, 0>> >>
      [] text = "B" -> << <<2, 0>>, <<0, 1>> >>
      [] text = "C" -> << <<-1, 1>> >>
      [] text = "S" -> << <<1>> >>
      [] OTHER -> << <<0, 0>> >>

-----------------------------------------------------------------------------------------------------------------------------------------------------
(* Records *)

\* bestMatch = null
NoDoc == [id |-> 0, documentName |-> "", embedding |-> <<>>, content |-> ""]

\* A request.  file, dataBuffer, text, embedding, bestMatch and
\* highestSimilarity are the handler's locals; status, message and response
\* are what res sends; error is what the catch block caught.  bytes (what the
\* client uploaded), saved (the id save() gave the record) and prior (the id
\* of the record stored by the request answered on this connection just
\* before this one) are kept for the properties only.
Idle ==
    [kind |-> "none", pc |-> "idle", file |-> NoFile, bytes |-> Absent,
     dataBuffer |-> Absent, text |-> "", embedding |-> <<>>,
     bestMatch |-> NoDoc, highestSimilarity |-> NegInfinity,
     status |-> 0, message |-> "", response |-> "", error |-> "",
     saved |-> 0, prior |-> 0]

\* res.status(code).json({message, ...}): the request is answered
Respond(req, code, message) ==
    [req EXCEPT !.pc = "done", !.status = code, !.message = message]

\* catch (error) { res.status(500).json({message}) }: the locals of the try
\* block are gone; of a query, the text asked with is kept
Caught(req, error, message) ==
    Respond([Idle EXCEPT !.kind = req.kind, !.error = error, !.prior = req.prior,
                         !.text = IF req.kind = "query" THEN req.text ELSE ""],
            500, message)

\* the movie script with no call running
NoMovie == [title |-> "", description |-> "", genre |-> <<>>, year |-> ""]

ScriptIdle ==
    [pc |-> "idle", fn |-> "", movie |-> NoMovie, text |-> "",
     defined |-> FALSE, embedding |-> <<>>, outcome |-> ""]

\* a connection slot takes a new request when it holds none, or an answered one
Free(r) == reqs[r].pc \in {"idle", "done"}

\* the id of the record the request answered in slot r has just stored
JustSaved(r) == IF reqs[r].status = 201 THEN reqs[r].saved ELSE 0

ServerUnchanged == UNCHANGED <<movies, script, call>>

-----------------------------------------------------------------------------
(* The linear scan of POST /query *)

\* the body of allEmbeddings.forEach, had it been written with >=
ScanStepOrEqual(acc, queryVec, doc) ==
    LET similarity == cosineSimilarity(queryVec, doc.embedding)
    IN  IF Ge(similarity, acc.highestSimilarity)
        THEN [bestMatch |-> doc, highestSimilarity |-> similarity]
        ELSE acc

\* the body of allEmbeddings.forEach
ScanStep(acc, queryVec, doc) ==
    LET similarity == cosineSimilarity(queryVec, doc.embedding)
    IN  IF Gt(similarity, acc.highestSimilarity)
        THEN [bestMatch |-> doc, highestSimilarity |-> similarity]
        ELSE acc

\* allEmbeddings.forEach(...) from position i on
RECURSIVE forEachFrom(_, _, _, _)
forEachFrom(allEmbeddings, queryVec, i, acc) ==
    IF i > Len(allEmbeddings) THEN acc
    ELSE forEachFrom(allEmbeddings, queryVec, i + 1,
                     ScanStep(acc, queryVec, allEmbeddings[i]))

\* the scan, had it left out the last record
ScanButLast(allEmbeddings, queryVec) ==
    forEachFrom(SubSeq(allEmbeddings, 1, Len(allEmbeddings) - 1), queryVec, 1,
                [bestMatch |-> NoDoc, highestSimilarity |-> NegInfinity])

\* let bestMatch = null; let highestSimilarity = -Infinity; forEach
Scan(allEmbeddings, queryVec) ==
    forEachFrom(allEmbeddings, queryVec, 1,
                [bestMatch |-> NoDoc, highestSimilarity |-> NegInfinity])

ErrPdf == "Error processing the PDF"
ErrQuery == "Error processing query"

-----------------------------------------------------------------------------
(* src/query.js: POST /upload *)

\* new Embedding({documentName, embedding, content}), as save() inserts it
NewEmbedding(req) ==
    [id |-> Len(store) + 1, documentName |-> req.file,
     embedding |-> req.embedding, content |-> req.text]

\* multer stores the file under its original name; the handler, called as the
\* write finishes, reads it back and starts pdfParse.  (Two writes to one path
\* that overlap in time are not modelled: a write is one step.)
Upload(r, name, bytes) ==
    /\ Free(r)
    /\ uploads' = [uploads EXCEPT ![name] = bytes]
    /\ reqs' = [reqs EXCEPT ![r] =
                  [Idle EXCEPT !.kind = "upload", !.pc = "pdfParse",
                               !.file = name, !.bytes = bytes,
                               !.dataBuffer = bytes]]
    /\ UNCHANGED store
    /\ ServerUnchanged

\* a request without a file part: 400
UploadNoFile(r) ==
    /\ Free(r)
    /\ reqs' = [reqs EXCEPT ![r] =
                  Respond([Idle EXCEPT !.kind = "upload"], 400, "No file uploaded")]
    /\ UNCHANGED <<store, uploads>>
    /\ ServerUnchanged

\* pdfParse settles: on a text the file is unlinked (unlinkSync throws when the
\* file is gone) and the embedding call starts; a rejection leaves the file
UploadParsed(r) ==
    /\ reqs[r].kind = "upload" /\ reqs[r].pc = "pdfParse"
    /\ IF ~pdfParseResolves(reqs[r].dataBuffer)
       THEN /\ reqs' = [reqs EXCEPT ![r] = Caught(reqs[r], "pdfParse", ErrPdf)]
            /\ UNCHANGED uploads
       ELSE IF uploads[reqs[r].file] = Absent
       THEN /\ reqs' = [reqs EXCEPT ![r] = Caught(reqs[r], "ENOENT", ErrPdf)]
            /\ UNCHANGED uploads
       ELSE /\ uploads' = [uploads EXCEPT ![reqs[r].file] = Absent]
            /\ reqs' = [reqs EXCEPT ![r] =
                          [reqs[r] EXCEPT !.pc = "featureExtraction",
                                          !.text = pdfText(reqs[r].dataBuffer)]]
    /\ UNCHANGED store
    /\ ServerUnchanged

\* hf.featureExtraction settles: embeddings[0] is kept and save() starts
UploadEmbedded(r) ==
    /\ reqs[r].kind = "upload" /\ reqs[r].pc = "featureExtraction"
    /\ \E resolves \in BOOLEAN :
        reqs' = [reqs EXCEPT ![r] =
                   IF resolves
                   THEN [reqs[r] EXCEPT !.pc = "save",
                                        !.embedding = featureExtraction(reqs[r].text)[1]]
                   ELSE Caught(reqs[r], "featureExtraction", ErrPdf)]
    /\ UNCHANGED <<store, uploads>>
    /\ ServerUnchanged

\* newEmbedding.save() settles: a new record is in the collection, 201
UploadSaved(r) ==
    /\ reqs[r].kind = "upload" /\ reqs[r].pc = "save"
    /\ \E resolves \in BOOLEAN :
        IF resolves /\ Len(store) < MaxStore
        THEN /\ store' = Append(store, NewEmbedding(reqs[r]))
             /\ reqs' = [reqs EXCEPT ![r] =
                           Respond([reqs[r] EXCEPT !.saved = Len(store) + 1],
                                   201, "Embedding saved successfully")]
        ELSE /\ reqs' = [reqs EXCEPT ![r] = Caught(reqs[r], "save", ErrPdf)]
             /\ UNCHANGED store
    /\ UNCHANGED uploads
    /\ ServerUnchanged

-----------------------------------------------------------------------------
(* src/query.js: POST /query *)

QueryTexts == Texts \cup {""}           \* "" is an empty or missing queryText

\* the handler starts: 400 without a query text, else the embedding call
Query(r, queryText) ==
    /\ Free(r)
    /\ reqs' = [reqs EXCEPT ![r] =
                  IF queryText = ""
                  THEN Respond([Idle EXCEPT !.kind = "query"],
                               400, "Query text is required")
                  ELSE [Idle EXCEPT !.kind = "query", !.pc = "featureExtraction",
                                    !.text = queryText, !.prior = JustSaved(r)]]
    /\ UNCHANGED <<store, uploads>>
    /\ ServerUnchanged

\* hf.featureExtraction settles: Embedding.find() starts
QueryEmbedded(r) ==
    /\ reqs[r].kind = "query" /\ reqs[r].pc = "featureExtraction"
    /\ \E resolves \in BOOLEAN :
        reqs' = [reqs EXCEPT ![r] =
                   IF resolves
                   THEN [reqs[r] EXCEPT !.pc = "find",
                                        !.embedding = featureExtraction(reqs[r].text)[1]]
                   ELSE Caught(reqs[r], "featureExtraction", ErrQuery)]
    /\ UNCHANGED <<store, uploads>>
    /\ ServerUnchanged

\* Embedding.find() settles: the scan runs; with a match the generation call
\* starts, without one the answer is "No match found"
QueryFound(r) ==
    /\ reqs[r].kind = "query" /\ reqs[r].pc = "find"
    /\ \E resolves \in BOOLEAN :
        LET found == Scan(store, reqs[r].embedding)
            scanned == [reqs[r] EXCEPT !.bestMatch = found.bestMatch,
                                       !.highestSimilarity = found.highestSimilarity]
        IN  reqs' = [reqs EXCEPT ![r] =
                       IF ~resolves THEN Caught(reqs[r], "find", ErrQuery)
                       ELSE IF found.bestMatch # NoDoc
                            THEN [scanned EXCEPT !.pc = "openai"]
                            ELSE Respond(scanned, 200, "No match found")]
    /\ UNCHANGED <<store, uploads>>
    /\ ServerUnchanged

\* openai.chat.completions.create settles: the match, the answer and the
\* similarity are sent; a rejection goes to the catch block, which answers 500
\* with a message only (the scan's result is kept here for the properties)
QueryAnswered(r) ==
    /\ reqs[r].kind = "query" /\ reqs[r].pc = "openai"
    /\ \E resolves \in BOOLEAN :
        reqs' = [reqs EXCEPT ![r] =
                   IF resolves
                   THEN Respond([reqs[r] EXCEPT !.response = "answer"], 200,
                                "Closest match for your query: "
                                    \o reqs[r].bestMatch.documentName)
                   ELSE Respond([reqs[r] EXCEPT !.error = "openai"], 500, ErrQuery)]
    /\ UNCHANGED <<store, uploads>>
    /\ ServerUnchanged

-----
(* The server of src/query.js, one request at a time *)

Init ==
    /\ store = <<>>
    /\ uploads = [n \in Names |-> Absent]
    /\ reqs = [r \in {1} |-> Idle]
    /\ movies = <<>>
    /\ script = ScriptIdle
    /\ call = NoCall

Next ==
    \/ \E r \in DOMAIN reqs, name \in Names, bytes \in Pdfs : Upload(r, name, bytes)
    \/ \E r \in DOMAIN reqs : UploadNoFile(r)
    \/ \E r \in DOMAIN reqs : UploadParsed(r)
    \/ \E r \in DOMAIN reqs : UploadEmbedded(r)
    \/ \E r \in DOMAIN reqs : UploadSaved(r)
    \/ \E r \in DOMAIN reqs, queryText \in QueryTexts : Query(r, queryText)
    \/ \E r \in DOMAIN reqs : QueryEmbedded(r)
    \/ \E r \in DOMAIN reqs : QueryFound(r)
    \/ \E r \in DOMAIN reqs : QueryAnswered(r)

Spec == Init /\ [][Next]_vars

-----------------------------------------------------------------------------
(* The queries of src/query.js over a collection that earlier uploads filled *)

\* the record POST /upload stores for a file of that name and text, as the
\* id-th of the collection
StoredAs(id, name, text) ==
    [id |-> id, documentName |-> name,
     embedding |-> featureExtraction(text)[1], content |-> text]

\* the collections of n such records
RECURSIVE StoresOfLen(_)
StoresOfLen(n) ==
    IF n = 0 THEN {<<>>}
    ELSE {Append(s, StoredAs(n, name, text)) :
            s \in StoresOfLen(n - 1), name \in Names, text \in Texts}

InitQuery ==
    /\ store \in UNION {StoresOfLen(n) : n \in 0..MaxScan}
    /\ uploads = [n \in Names |-> Absent]
    /\ reqs = [r \in {1} |-> Idle]
    /\ movies = <<>>
    /\ script = ScriptIdle
    /\ call = NoCall

NextQuery ==
    \/ \E r \in DOMAIN reqs, queryText \in QueryTexts : Query(r, queryText)
    \/ \E r \in DOMAIN reqs : QueryEmbedded(r)
    \/ \E r \in DOMAIN reqs : QueryFound(r)
    \/ \E r \in DOMAIN reqs : QueryAnswered(r)

SpecQuery == InitQuery /\ [][NextQuery]_vars

-----------------------------------------------------------------------------------------------------------------------------------------------------
(* Two connections to the server of src/query.js, each with one upload *)

InitConcurrent ==
    /\ store = <<>>
    /\ uploads = [n \in Names |-> Absent]
    /\ reqs = [r \in {1, 2} |-> Idle]
    /\ movies = <<>>
    /\ script = ScriptIdle
    /\ call = NoCall

NextConcurrent ==
    \/ \E r \in DOMAIN reqs, name \in Names, bytes \in Pdfs :
          reqs[r].pc = "idle" /\ Upload(r, name, bytes)
    \/ \E r \in DOMAIN reqs : reqs[r].pc = "idle" /\ UploadNoFile(r)
    \/ \E r \in DOMAIN reqs : UploadParsed(r)
    \/ \E r \in DOMAIN reqs : UploadEmbedded(r)
    \/ \E r \in DOMAIN reqs : UploadSaved(r)

SpecConcurrent == InitConcurrent /\ [][NextConcurrent]_vars

-----------------------------------------------------------------------------
(* src/unnamed/part_000: the earlier server.  Its schema has no content, its *)
(* handlers check neither req.file nor queryText, and POST /query calls no   *)
(* generation step.  Its scan and its cosineSimilarity are, line for line,   *)
(* those of src/query.js.                                                    *)

NoContent == "undefined"                \* doc.content of a record without one

\* new Embedding({documentName, embedding}), as save() inserts it
PlainNewEmbedding(req) ==
    [id |-> Len(store) + 1, documentName |-> req.file,
     embedding |-> req.embedding, content |-> NoContent]

\* multer stores the file; the handler reads it back and starts pdfParse
PlainUpload(r, name, bytes) ==
    /\ Free(r)
    /\ uploads' = [uploads EXCEPT ![name] = bytes]
    /\ reqs' = [reqs EXCEPT ![r] =
                  [Idle EXCEPT !.kind = "upload", !.pc = "pdfParse",
                               !.file = name, !.bytes = bytes,
                               !.dataBuffer = bytes]]
    /\ UNCHANGED store
    /\ ServerUnchanged

\* a request without a file part: req.file.filename throws, 500
PlainUploadNoFile(r) ==
    /\ Free(r)
    /\ reqs' = [reqs EXCEPT ![r] =
                  Caught([Idle EXCEPT !.kind = "upload"], "TypeError", ErrPdf)]
    /\ UNCHANGED <<store, uploads>>
    /\ ServerUnchanged

\* pdfParse settles: unlink, then the embedding call
PlainUploadParsed(r) ==
    /\ reqs[r].kind = "upload" /\ reqs[r].pc = "pdfParse"
    /\ IF ~pdfParseResolves(reqs[r].dataBuffer)
       THEN /\ reqs' = [reqs EXCEPT ![r] = Caught(reqs[r], "pdfParse", ErrPdf)]
            /\ UNCHANGED uploads
       ELSE IF uploads[reqs[r].file] = Absent
       THEN /\ reqs' = [reqs EXCEPT ![r] = Caught(reqs[r], "ENOENT", ErrPdf)]
            /\ UNCHANGED uploads
       ELSE /\ uploads' = [uploads EXCEPT ![reqs[r].file] = Absent]
            /\ reqs' = [reqs EXCEPT ![r] =
                          [reqs[r] EXCEPT !.pc = "featureExtraction",
                                          !.text = pdfText(reqs[r].dataBuffer)]]
    /\ UNCHANGED store
    /\ ServerUnchanged

\* hf.featureExtraction settles: embeddings[0] is kept and save() starts
PlainUploadEmbedded(r) ==
    /\ reqs[r].kind = "upload" /\ reqs[r].pc = "featureExtraction"
    /\ \E resolves \in BOOLEAN :
        reqs' = [reqs EXCEPT ![r] =
                   IF resolves
                   THEN [reqs[r] EXCEPT !.pc = "save",
                                        !.embedding = featureExtraction(reqs[r].text)[1]]
                   ELSE Caught(reqs[r], "featureExtraction", ErrPdf)]
    /\ UNCHANGED <<store, uploads>>
    /\ ServerUnchanged

\* newEmbedding.save() settles: a new record is in the collection, 201
PlainUploadSaved(r) ==
    /\ reqs[r].kind = "upload" /\ reqs[r].pc = "save"
    /\ \E resolves \in BOOLEAN :
        IF resolves /\ Len(store) < MaxStore
        THEN /\ store' = Append(store, PlainNewEmbedding(reqs[r]))
             /\ reqs' = [reqs EXCEPT ![r] =
                           Respond([reqs[r] EXCEPT !.saved = Len(store) + 1],
                                   201, "Embedding saved successfully")]
        ELSE /\ reqs' = [reqs EXCEPT ![r] = Caught(reqs[r], "save", ErrPdf)]
             /\ UNCHANGED store
    /\ UNCHANGED uploads
    /\ ServerUnchanged

\* the handler starts: the embedding call is made with whatever queryText is
PlainQuery(r, queryText) ==
    /\ Free(r)
    /\ reqs' = [reqs EXCEPT ![r] =
                  [Idle EXCEPT !.kind = "query", !.pc = "featureExtraction",
                               !.text = queryText, !.prior = JustSaved(r)]]
    /\ UNCHANGED <<store, uploads>>
    /\ ServerUnchanged

\* hf.featureExtraction settles: Embedding.find() starts
PlainQueryEmbedded(r) ==
    /\ reqs[r].kind = "query" /\ reqs[r].pc = "featureExtraction"
    /\ \E resolves \in BOOLEAN :
        reqs' = [reqs EXCEPT ![r] =
                   IF resolves
                   THEN [reqs[r] EXCEPT !.pc = "find",
                                        !.embedding = featureExtraction(reqs[r].text)[1]]
                   ELSE Caught(reqs[r], "featureExtraction", ErrQuery)]
    /\ UNCHANGED <<store, uploads>>
    /\ ServerUnchanged

\* Embedding.find() settles: the scan runs and the answer is built from
\* bestMatch.documentName, which throws when bestMatch is null (the scan's
\* result is kept in the answered request for the properties)
PlainQueryFound(r) ==
    /\ reqs[r].kind = "query" /\ reqs[r].pc = "find"
    /\ \E resolves \in BOOLEAN :
        LET found == Scan(store, reqs[r].embedding)
            scanned == [reqs[r] EXCEPT !.bestMatch = found.bestMatch,
                                       !.highestSimilarity = found.highestSimilarity]
        IN  reqs' = [reqs EXCEPT ![r] =
                       IF ~resolves THEN Caught(reqs[r], "find", ErrQuery)
                       ELSE IF found.bestMatch = NoDoc
                            THEN Respond([scanned EXCEPT !.error = "TypeError"],
                                         500, ErrQuery)
                            ELSE Respond(scanned, 200,
                                         "Closest match for your query: "
                                             \o found.bestMatch.documentName)]
    /\ UNCHANGED <<store, uploads>>
    /\ ServerUnchanged

NextPlain ==
    \/ \E r \in DOMAIN reqs, name \in Names, bytes \in Pdfs : PlainUpload(r, name, bytes)
    \/ \E r \in DOMAIN reqs : PlainUploadNoFile(r)
    \/ \E r \in DOMAIN reqs : PlainUploadParsed(r)
    \/ \E r \in DOMAIN reqs : PlainUploadEmbedded(r)
    \/ \E r \in DOMAIN reqs : PlainUploadSaved(r)
    \/ \E r \in DOMAIN reqs, queryText \in QueryTexts : PlainQuery(r, queryText)
    \/ \E r \in DOMAIN reqs : PlainQueryEmbedded(r)
    \/ \E r \in DOMAIN reqs : PlainQueryFound(r)

SpecPlain == Init /\ [][NextPlain]_vars

-----------------------------------------------------------------------------
(* src/unnamed/part_001: the movie script.  The file itself calls            *)
(* searchMovies once; storeMovieWithEmbedding is the function it defines for *)
(* storing a movie, called here as its commented example calls it.           *)

\* the movies the script is run for: title, description, genre, year
Catalogue ==
    {[title |-> "Interstellar", description |-> "space travel",
      genre |-> <<"Sci-Fi", "Adventure">>, year |-> "2014"],
     [title |-> "Alien", description |-> "a ship",
      genre |-> <<"Horror">>, year |-> "1979"]}

SearchTexts == {"space adventure", "Alien a ship"}

\* response.data of axios.post(embeddingUrl, {inputs: text}), when it answers
embeddingUrlData(text) ==
    CASE text = "Interstellar space travel" -> << <<1, 0>> >>
      [] text = "Alien a ship" -> << <<0, 1>> >>
      [] OTHER -> << <<1, 1>> >>

ScriptFree == script.pc \in {"idle", "done"}

ScriptUnchanged == UNCHANGED <<store, uploads, reqs, call>>

\* storeMovieWithEmbedding(title, description, genre, year) is called:
\* textToEmbed is built and createEmbedding starts
storeMovieWithEmbedding(movie) ==
    /\ ScriptFree
    /\ script' = [ScriptIdle EXCEPT !.pc = "createEmbedding", !.fn = "store",
                                    !.movie = movie,
                                    !.text = movie.title \o " " \o movie.description]
    /\ UNCHANGED movies
    /\ ScriptUnchanged

\* searchMovies(queryText) is called: createEmbedding starts
searchMovies(queryText) ==
    /\ ScriptFree
    /\ script' = [ScriptIdle EXCEPT !.pc = "createEmbedding", !.fn = "search",
                                    !.text = queryText]
    /\ UNCHANGED movies
    /\ ScriptUnchanged

\* createEmbedding returns: response.data[0], or undefined after its catch
\* block has logged the error.  storeMovieWithEmbedding goes on to save();
\* searchMovies returns on an undefined embedding, else starts the aggregate
createEmbedding ==
    /\ script.pc = "createEmbedding"
    /\ \E resolves \in BOOLEAN :
        LET returned == [script EXCEPT
                            !.defined = resolves,
                            !.embedding = IF resolves
                                          THEN embeddingUrlData(script.text)[1]
                                          ELSE <<>>]
        IN  script' =
              IF script.fn = "store" THEN [returned EXCEPT !.pc = "save"]
              ELSE IF ~resolves
                   THEN [returned EXCEPT !.pc = "done", !.outcome = "not generated"]
                   ELSE [returned EXCEPT !.pc = "aggregate"]
    /\ UNCHANGED movies
    /\ ScriptUnchanged

\* new Movie({title, description, genre, year, embeddings: embedding}): an
\* undefined embeddings takes the schema's default, []
NewMovie(job) ==
    [title |-> job.movie.title, description |-> job.movie.description,
     genre |-> job.movie.genre, year |-> job.movie.year,
     embeddings |-> IF job.defined THEN job.embedding ELSE <<>>]

\* newMovie.save() settles
MovieSaved ==
    /\ script.pc = "save"
    /\ \E resolves \in BOOLEAN :
        IF resolves /\ Len(movies) < MaxMovies
        THEN /\ movies' = Append(movies, NewMovie(script))
             /\ script' = [script EXCEPT !.pc = "done", !.outcome = "stored"]
        ELSE /\ script' = [script EXCEPT !.pc = "done", !.outcome = "rejected"]
             /\ UNCHANGED movies
    /\ ScriptUnchanged

\* Movie.aggregate([{$search: {knnBeta}}]) settles; the results are logged
MoviesAggregated ==
    /\ script.pc = "aggregate"
    /\ \E resolves \in BOOLEAN :
        script' = [script EXCEPT !.pc = "done",
                                 !.outcome = IF resolves THEN "results" ELSE "rejected"]
    /\ UNCHANGED movies
    /\ ScriptUnchanged

NextMovies ==
    \/ \E movie \in Catalogue : storeMovieWithEmbedding(movie)
    \/ \E queryText \in SearchTexts : searchMovies(queryText)
    \/ createEmbedding
    \/ MovieSaved
    \/ MoviesAggregated

SpecMovies == Init /\ [][NextMovies]_vars

-----------------------------------------------------------------------------
(* cosineSimilarity on its own *)

InitCosine ==
    /\ store = <<>>
    /\ uploads = [n \in Names |-> Absent]
    /\ reqs = [r \in {1} |-> Idle]
    /\ movies = <<>>
    /\ script = ScriptIdle
    /\ call \in {[vecA |-> a, vecB |-> b, state |-> "called", ret |-> NaN] :
                   a \in ArgVectors, b \in ArgVectors}

NextCosine == CallCosineSimilarity

SpecCosine == InitCosine /\ [][NextCosine]_vars

-----
(* Properties of the server of src/query.js *)

Slots == DOMAIN reqs

\* the request in slot r is a query whose scan has run
Scanned(r) ==
    /\ reqs[r].kind = "query"
    /\ \/ reqs[r].pc = "openai"
       \/ reqs[r].pc = "done" /\ reqs[r].status = 200
       \/ reqs[r].pc = "done" /\ reqs[r].error \in {"openai", "TypeError"}

\* the similarity of the query of slot r to the i-th record
SimTo(r, i) == cosineSimilarity(reqs[r].embedding, store[i].embedding)

\* the similarities of a query vector to the records, in scan order
Sims(queryVec) ==
    [i \in 1..Len(store) |-> cosineSimilarity(queryVec, store[i].embedding)]

\* the records whose similarity is a valid number
ValidIn(sims) == {i \in DOMAIN sims : ~IsNaN(sims[i])}

\* the valid records whose similarity no valid record exceeds
MaximalIn(sims) ==
    LET valid == ValidIn(sims)
    IN  {i \in valid : \A j \in valid : Ge(sims[i], sims[j])}

\* the first record of a non-empty set, in scan order
First(S) == CHOOSE i \in S : \A j \in S : i <= j

\* C1: the scan selects the record that comes first in scan order among those
\* of maximal similarity over the records whose similarity is a valid number,
\* and tracks that similarity; a record whose similarity is not-a-number is
\* never selected and leaves the tracked score alone, so that with no valid
\* record the scan ends with no match and the score at -Infinity.
C1_ScanSelectsFirstMaximum ==
    \A r \in Slots :
        Scanned(r) =>
            LET sims == Sims(reqs[r].embedding)
                maximal == MaximalIn(sims)
            IN  IF ValidIn(sims) = {}
                THEN /\ reqs[r].bestMatch = NoDoc
                     /\ reqs[r].highestSimilarity = NegInfinity
                ELSE /\ maximal # {}
                     /\ reqs[r].bestMatch = store[First(maximal)]
                     /\ reqs[r].highestSimilarity = sims[First(maximal)]

\* a scan over three records: the first is not-a-number, the second and the
\* third tie for the maximum, and the second is the one selected
C1_Witness ==
    \E r \in Slots :
        /\ Scanned(r)
        /\ Len(store) = 3
        /\ IsNaN(SimTo(r, 1))
        /\ MaximalIn(Sims(reqs[r].embedding)) = {2, 3}
        /\ reqs[r].bestMatch = store[2]

\* C2 (as claimed): when the scan has found a match and the generation call
\* then fails, the request is still answered 200 with the match's name.
C2_GenerationFailureKeepsMatch ==
    \A r \in Slots :
        (reqs[r].kind = "query" /\ reqs[r].pc = "done" /\ reqs[r].error = "openai") =>
            /\ reqs[r].status = 200
            /\ reqs[r].message =
                   "Closest match for your query: " \o reqs[r].bestMatch.documentName

\* C5 (as claimed): all records of the store have embeddings of one length.
C5_OneDimension ==
    \A i, j \in 1..Len(store) :
        Len(store[i].embedding) = Len(store[j].embedding)

\* C7 (as claimed): the store holds at most one record per document name.
C7_OneRecordPerName ==
    \A i, j \in 1..Len(store) :
        store[i].documentName = store[j].documentName => i = j

\* the request in slot r is an answered query that arrived right after the
\* upload that stored record reqs[r].prior, and asks with that record's text
RoundTrip(r) ==
    /\ reqs[r].kind = "query" /\ reqs[r].pc = "done" /\ reqs[r].status = 200
    /\ reqs[r].prior # 0
    /\ reqs[r].text = store[reqs[r].prior].content

\* the query of slot r names the record it was ingested as
SelectsIngested(r) ==
    /\ reqs[r].bestMatch.documentName = store[reqs[r].prior].documentName
    /\ reqs[r].message =
           "Closest match for your query: " \o store[reqs[r].prior].documentName

\* C8 (as claimed): a query with the text of the document ingested just
\* before it selects that document, whatever the store held.
C8_RoundTripAlways ==
    \A r \in Slots : RoundTrip(r) => SelectsIngested(r)

\* C8 (amended): it does so when the ingested record's similarity to the query
\* is a valid number and no record scanned before it has a similarity to the
\* query that is at least as high.
C8_RoundTripUnlessTiedOrNaN ==
    \A r \in Slots :
        RoundTrip(r) =>
            LET p == reqs[r].prior
            IN  (/\ ~IsNaN(SimTo(r, p))
                 /\ \A j \in 1..(p - 1) : ~Ge(SimTo(r, j), SimTo(r, p)))
                    => /\ SelectsIngested(r)
                       /\ reqs[r].bestMatch = store[p]

\* a round trip over a store that held a record of another name and of a valid
\* but lower similarity ends with the ingested document selected
C8_Witness ==
    \E r \in Slots :
        /\ RoundTrip(r)
        /\ reqs[r].prior = 2
        /\ ~IsNaN(SimTo(r, 1))
        /\ store[1].documentName # store[2].documentName
        /\ reqs[r].bestMatch = store[2]
        /\ SelectsIngested(r)

-----------------------------------------------------------------------------
(* Properties of the earlier server, the movie script and cosineSimilarity *)

\* the request in slot r is an answered query that got as far as its scan
ScanAnswered(r) ==
    /\ reqs[r].kind = "query" /\ reqs[r].pc = "done"
    /\ reqs[r].status # 400
    /\ reqs[r].error \notin {"featureExtraction", "find"}

\* C3 (as claimed): a query whose scan met no viable candidate (an empty
\* collection, or not-a-number for every record) is answered with the
\* no-match result: no error response, no record named, no generation call.
C3_NoCandidateIsNoMatch ==
    \A r \in Slots :
        (ScanAnswered(r) /\ ValidIn(Sims(reqs[r].embedding)) = {}) =>
            /\ reqs[r].status = 200
            /\ reqs[r].message = "No match found"
            /\ reqs[r].bestMatch = NoDoc
            /\ reqs[r].error = ""
            /\ reqs[r].response = ""

\* C4 (as claimed): no record of either collection is without an embedding.
C4_NoRecordWithoutEmbedding ==
    /\ \A i \in 1..Len(store) : store[i].embedding # <<>>
    /\ \A i \in 1..Len(movies) : movies[i].embeddings # <<>>

\* C6 (as claimed): applied to vectors of different lengths, cosineSimilarity
\* fails and returns no value.
C6_MismatchFails ==
    (call.state # "called" /\ Len(call.vecA) # Len(call.vecB)) =>
        call.state = "threw"

\* C9 (as claimed): a query without a text is answered 400 at once; it is
\* never found waiting for the embedding call, the store or the generation.
C9_EmptyQueryRejectedFirst ==
    \A r \in Slots :
        (reqs[r].kind = "query" /\ reqs[r].text = "") =>
            /\ reqs[r].pc = "done"
            /\ reqs[r].status = 400

\* C10 (as claimed): as long as no external call (parsing, embedding, saving)
\* has failed, every upload has read the bytes it uploaded, none has failed on
\* a file that another request removed, and every record stored holds the
\* text of the file its own request uploaded.
C10_UploadsIndependent ==
    (\A r \in Slots : reqs[r].error \notin {"pdfParse", "featureExtraction", "save"}) =>
        \A r \in Slots :
            /\ reqs[r].pc \in {"pdfParse", "featureExtraction", "save"} =>
                   reqs[r].dataBuffer = reqs[r].bytes
            /\ reqs[r].error # "ENOENT"
            /\ reqs[r].status = 201 =>
                   store[reqs[r].saved].content = pdfText(reqs[r].bytes)

====
